---------------------------- MODULE Spec2Model ----------------------------
(***************************************************************************)
(* Pattern-likeness scoring of qualipy (imgfilter/filters/pattern_detection *)
(* and imgfilter/utils/utils).                                             *)
(*                                                                         *)
(* Floating-point values are modelled as exact rationals num/den (den > 0, *)
(* lowest terms) with one extra value NaN.  Every comparison with NaN is   *)
(* false and every arithmetic operation on NaN yields NaN, as in IEEE 754. *)
(* For the small numerators and denominators used here the correctly       *)
(* rounded double of n/m compares with the literals 0.05, 0.4 and 0.7 the  *)
(* way the exact rational does.                                            *)
(***************************************************************************)
EXTENDS Integers, Sequences, FiniteSets

VARIABLES
    pc,                 \* "init" before the call, "done" after it
    height, width,      \* arguments of distances_from_center
    circle,             \* its result
    prediction1, prediction2,   \* two arguments of scaled_prediction
    score1, score2,             \* their results
    magnitude_spectrum, \* the spectrum PatternDetection.run scores
    mask, all_distances, max_distances, max_distance_avg, donut,
    intense_points, all_points, \* locals of pattern_recognition
    prediction, score,          \* its result and the final score
    arr,                \* the argument of normalize
    normalized,         \* its result
    matrix, part_n,     \* the arguments of partition_matrix
    partitions,         \* its result
    histogram, threshold,       \* arguments of clipping_percentage
    clip_over, clip_under       \* its results for overThreshold True, False

distVars  == <<height, width, circle>>
scaleVars == <<prediction1, prediction2, score1, score2>>
patLocals == <<mask, all_distances, max_distances, max_distance_avg, donut,
               intense_points, all_points, prediction, score>>
patVars   == <<magnitude_spectrum, patLocals>>
normVars  == <<arr, normalized>>
partVars  == <<matrix, part_n, partitions>>
clipVars  == <<histogram, threshold, clip_over, clip_under>>
vars == <<pc, distVars, scaleVars, patVars, normVars, partVars, clipVars>>

---------------------------------------------------------------------------
(* Bounds of the model *)

\* largest height and width drawn for distances_from_center
MaxSide == 8
\* largest AllPoints drawn as the denominator of a raw density
MaxPoints == 20
\* largest height and width of a magnitude spectrum
MaxDim == 3
\* largest number of cells of a magnitude spectrum
MaxCells == 6
\* largest length of a 1-D array and largest side of a 2-D array normalized
MaxLen == 3
MaxRows == 2
\* largest element of an array normalized
MaxVal == 2
\* largest height and width of a matrix partitioned, largest n
MaxPartSide == 4
MaxN == 4
\* number of bins of a histogram (256 in an 8-bit one), largest count in a bin
MaxBins == 4
MaxCount == 2

---------------------------------------------------------------------------
(* Floats as rationals *)

Abs(i) == IF i < 0 THEN -i ELSE i

RECURSIVE GCD(_, _)
GCD(a, b) == IF b = 0 THEN a ELSE GCD(b, a % b)

NaN == [nan |-> TRUE, num |-> 0, den |-> 1]

\* n/d in lowest terms, d # 0
Rat(n, d) ==
    LET g == GCD(Abs(n), Abs(d))
        s == IF d < 0 THEN -1 ELSE 1
    IN  [nan |-> FALSE, num |-> s * (n \div g), den |-> s * (d \div g)]

RInt(i) == Rat(i, 1)

RLt(a, b) == ~a.nan /\ ~b.nan /\ a.num * b.den < b.num * a.den
RGt(a, b) == RLt(b, a)
RLe(a, b) == ~a.nan /\ ~b.nan /\ a.num * b.den <= b.num * a.den
RGe(a, b) == RLe(b, a)

RAdd(a, b) == IF a.nan \/ b.nan THEN NaN
              ELSE Rat(a.num * b.den + b.num * a.den, a.den * b.den)
RSub(a, b) == IF a.nan \/ b.nan THEN NaN
              ELSE Rat(a.num * b.den - b.num * a.den, a.den * b.den)
RMul(a, b) == IF a.nan \/ b.nan THEN NaN
              ELSE Rat(a.num * b.num, a.den * b.den)
\* numpy float division: 0/0 is nan (a RuntimeWarning, no exception).  A non-zero
\* value over zero (inf) does not arise in this program.
RDiv(a, b) == IF a.nan \/ b.nan \/ b.num = 0 THEN NaN
              ELSE Rat(a.num * b.den, a.den * b.num)

---------------------------------------------------------------------------
(* distances_from_center *)

\* numpy.mgrid[:height, :width]: yy[y][x] = y and xx[y][x] = x, 0-based
MGridY(h, w) == [y \in 0..(h - 1) |-> [x \in 0..(w - 1) |-> y]]
MGridX(h, w) == [y \in 0..(h - 1) |-> [x \in 0..(w - 1) |-> x]]

\* distances_from_center with the center rounded down (width // 2), the
\* variant the unrounded center is told apart from
distances_from_center_floor(h, w) ==
    LET yy == MGridY(h, w)
        xx == MGridX(h, w)
        cx == RInt(w \div 2)
        cy == RInt(h \div 2)
    IN  [y \in 0..(h - 1) |-> [x \in 0..(w - 1) |->
            RAdd(RMul(RSub(RInt(xx[y][x]), cx), RSub(RInt(xx[y][x]), cx)),
                 RMul(RSub(RInt(yy[y][x]), cy), RSub(RInt(yy[y][x]), cy)))]]

\* (xx - width / 2.0) ** 2 + (yy - height / 2.0) ** 2
distances_from_center(h, w) ==
    LET yy == MGridY(h, w)
        xx == MGridX(h, w)
        cx == RDiv(RInt(w), RInt(2))
        cy == RDiv(RInt(h), RInt(2))
    IN  [y \in 0..(h - 1) |-> [x \in 0..(w - 1) |->
            RAdd(RMul(RSub(RInt(xx[y][x]), cx), RSub(RInt(xx[y][x]), cx)),
                 RMul(RSub(RInt(yy[y][x]), cy), RSub(RInt(yy[y][x]), cy)))]]

---------------------------------------------------------------------------
(* scaled_prediction *)

LowDensity  == Rat(1, 20)   \* 0.05
HighDensity == Rat(2, 5)    \* 0.4

\* statistic_common.linear_normalize(value, low, high): the value's linear
\* position in [low, high], clamped to [0, 1]; increasing in value
linear_normalize(value, low, high) ==
    LET t == RDiv(RSub(value, low), RSub(high, low))
    IN  IF t.nan THEN NaN
        ELSE IF RLt(t, RInt(0)) THEN RInt(0)
        ELSE IF RGt(t, RInt(1)) THEN RInt(1)
        ELSE t

scaled_prediction(p) ==
    IF RLt(p, LowDensity) THEN RInt(1)
    ELSE IF RGt(p, HighDensity) THEN RInt(0)
    ELSE linear_normalize(p, RInt(0), HighDensity)

---------------------------------------------------------------------------
(* pattern_recognition *)

\* magnitude_spectrum > 0.7
Threshold == Rat(7, 10)

\* the contamination passed to remove_anomalies
Contamination == Rat(2, 5)

\* the number of largest distances averaged
MaxValuesCount == 20

\* fixed-point scale of the square roots' enclosures
RootScale == 1000

Shape(m) == <<Cardinality(DOMAIN m), Cardinality(DOMAIN m[0])>>
Cells(m) == {<<y, x>> : y \in DOMAIN m, x \in DOMAIN m[0]}

\* the cells of an h x w array in row-major order
RowMajor(h, w) == [i \in 1..(h * w) |-> <<(i - 1) \div w, (i - 1) % w>>]

\* floor of the square root of v, by bisection
RECURSIVE ISqrtIn(_, _, _)
ISqrtIn(v, lo, hi) ==
    IF lo = hi THEN lo
    ELSE LET mid == (lo + hi + 1) \div 2
         IN  IF mid * mid <= v THEN ISqrtIn(v, mid, hi)
             ELSE ISqrtIn(v, lo, mid - 1)
\* (the root of a 32-bit value is below 46341)
ISqrt(v) == ISqrtIn(v, 0, IF v > 46340 THEN 46340 ELSE v)

\* A distance is kept as its square r (a multiple of 1/4): the value is
\* sqrt(r) = sqrt(4r) / 2, enclosed in [RootLo(r), RootHi(r)] / (2 * RootScale)
\* and exact when 4r is a perfect square.
Quarters(r) == (4 * r.num) \div r.den
RootExact(r) == ISqrt(Quarters(r)) * ISqrt(Quarters(r)) = Quarters(r)
RootLo(r) == IF RootExact(r) THEN RootScale * ISqrt(Quarters(r))
             ELSE ISqrt(Quarters(r) * RootScale * RootScale)
RootHi(r) == IF RootExact(r) THEN RootLo(r) ELSE RootLo(r) + 1

\* numpy.sqrt(circle[mask].flatten()): the distances of the masked cells in
\* row-major order
MaskedDistances(c, msk) ==
    LET sh    == Shape(c)
        order == RowMajor(sh[1], sh[2])
        picked == SelectSeq(order, LAMBDA yx : msk[yx[1]][yx[2]])
    IN  [i \in 1..Len(picked) |-> c[picked[i][1]][picked[i][2]]]

\* statistic_common.remove_anomalies(arr, contamination): the subsequence of
\* arr left when the entries at `removed` are taken out as outliers
remove_anomalies(ds, removed) ==
    LET kept == SelectSeq([i \in 1..Len(ds) |-> i], LAMBDA i : i \notin removed)
    IN  [i \in 1..Len(kept) |-> ds[kept[i]]]

\* the index sets remove_anomalies may take out: at most the contamination
\* fraction of the entries
Removable(ds, contamination) ==
    {r \in SUBSET (1..Len(ds)) :
        Cardinality(r) * contamination.den <= contamination.num * Len(ds)}

\* statistic_common.get_max_values(arr, n): the n largest values, all of them
\* when there are fewer, largest first
RECURSIVE get_max_values(_, _)
get_max_values(ds, n) ==
    IF n = 0 \/ Len(ds) = 0 THEN <<>>
    ELSE LET i == CHOOSE j \in 1..Len(ds) :
                      \A k \in 1..Len(ds) :
                          /\ RGe(ds[j], ds[k])
                          /\ (ds[k] = ds[j] => j <= k)
             rest == [k \in 1..(Len(ds) - 1) |->
                          IF k < i THEN ds[k] ELSE ds[k + 1]]
         IN  <<ds[i]>> \o get_max_values(rest, n - 1)

RECURSIVE SumLo(_)
SumLo(ds) == IF ds = <<>> THEN 0 ELSE RootLo(Head(ds)) + SumLo(Tail(ds))
RECURSIVE SumHi(_)
SumHi(ds) == IF ds = <<>> THEN 0 ELSE RootHi(Head(ds)) + SumHi(Tail(ds))

\* The radicands 4r <= 32 whose binary64 root squares to more than r:
\* fl(fl(sqrt(r)) ** 2) > r.  For the other inexact roots up to 32 the
\* square is r or less.
SquareOfRootAbove == {2, 5, 7, 8, 10, 15, 19, 20, 28, 32}

\* numpy.mean(max_distances): nan for an empty array (a RuntimeWarning, no
\* exception); otherwise sum / count with 2 * RootScale * sum in [lo, hi].
\* `same` is 4r when the mean is that of one value sqrt(r) or of two equal
\* ones, which binary64 computes as fl(sqrt(r)) itself, and -1 otherwise.
Mean(ds) ==
    [nan |-> ds = <<>>, lo |-> SumLo(ds), hi |-> SumHi(ds), count |-> Len(ds),
     same |-> IF Len(ds) \in {1, 2} /\ (\A i \in 1..Len(ds) : ds[i] = ds[1])
                 /\ Quarters(ds[1]) <= 32
              THEN Quarters(ds[1]) ELSE -1]

\* circle[y][x] >= max_distance_avg ** 2, where the comparison is settled by
\* the values:  "yes", "no", or "tie" when the two sides are equal up to the
\* rounding of the inexact square roots
CompareRadius(r, avg) ==
    IF avg.nan THEN "no"
    ELSE IF avg.lo = avg.hi
         THEN IF avg.count * avg.count * Quarters(r)
                    >= (avg.lo \div RootScale) * (avg.lo \div RootScale)
              THEN "yes" ELSE "no"
    ELSE IF avg.count * RootLo(r) >= avg.hi THEN "yes"
    ELSE IF avg.count * RootHi(r) <= avg.lo THEN "no"
    ELSE "tie"

\* How a tie falls: by the binary64 rounding where the model knows it, and
\* either way (`tie`) where the rounding of the sum and the mean decides.
TieOuter(avg, tie) ==
    IF avg.same >= 0 THEN avg.same \notin SquareOfRootAbove ELSE tie

\* donut = circle >= max_distance_avg ** 2
Donut(c, avg, tie) ==
    [y \in DOMAIN c |-> [x \in DOMAIN c[y] |->
        LET cmp == CompareRadius(c[y][x], avg)
        IN  cmp = "yes" \/ (cmp = "tie" /\ TieOuter(avg, tie))]]

\* numpy.sum of a boolean array
CountTrue(b) == Cardinality({yx \in Cells(b) : b[yx[1]][yx[2]]})

---------------------------------------------------------------------------
(* utils.normalize *)

\* A numpy array: its shape (one or two axes), its elements in row-major
\* order and whether its dtype is an integer or a float one.
Size(shape) == IF Len(shape) = 1 THEN shape[1] ELSE shape[1] * shape[2]

NoArray == [shape |-> <<0>>, data |-> <<>>, dtype |-> "float"]

RECURSIVE ArrMin(_)
ArrMin(data) ==
    IF Len(data) = 1 THEN data[1]
    ELSE LET m == ArrMin(Tail(data))
         IN  IF RLt(data[1], m) THEN data[1] ELSE m
RECURSIVE ArrMax(_)
ArrMax(data) ==
    IF Len(data) = 1 THEN data[1]
    ELSE LET m == ArrMax(Tail(data))
         IN  IF RGt(data[1], m) THEN data[1] ELSE m

\* numpy.ones(n): a 1-D float array of n ones
Ones(n) == [shape |-> <<n>>, data |-> [i \in 1..n |-> RInt(1)], dtype |-> "float"]

\* a / b elementwise: true division of floats, floor division of integers
\* (the module has no `from __future__ import division`)
Divide(a, b, dtype) ==
    IF dtype = "int" THEN RInt((a.num \div a.den) \div (b.num \div b.den))
    ELSE RDiv(a, b)

normalize(a) ==
    LET arr_min == ArrMin(a.data)
        arr_max == ArrMax(a.data)
    IN  IF arr_min = arr_max
        THEN Ones(a.shape[1])      \* len(arr) is the length of the first axis
        ELSE [shape |-> a.shape,
              data  |-> [i \in 1..Len(a.data) |->
                            Divide(RSub(a.data[i], arr_min),
                                   RSub(arr_max, arr_min), a.dtype)],
              dtype |-> a.dtype]

---------------------------------------------------------------------------
(* utils.partition_matrix *)

\* matrix[y0 : y1, x0 : x1]: the rows y0..y1-1 and columns x0..x1-1 that
\* exist, re-indexed from 0
Slice(m, y0, y1, x0, x1) ==
    LET sh == Shape(m)
        ye == IF y1 > sh[1] THEN sh[1] ELSE y1
        xe == IF x1 > sh[2] THEN sh[2] ELSE x1
    IN  [y \in 0..(ye - y0 - 1) |-> [x \in 0..(xe - x0 - 1) |-> m[y0 + y][x0 + x]]]

\* xrange(0, stride * n, stride) as a sequence
XRange(stride, n) == [i \in 1..n |-> (i - 1) * stride]

\* the list built by the two loops, x innermost
Blocks(m, n, y_stride, x_stride, y_len, x_len) ==
    [i \in 1..(n * n) |->
        LET y == XRange(y_stride, n)[((i - 1) \div n) + 1]
            x == XRange(x_stride, n)[((i - 1) % n) + 1]
        IN  Slice(m, y, y + y_len, x, x + x_len)]

\* partition_matrix with each block one row and one column too large
partition_matrix_overlap(m, n) ==
    LET y_stride == Shape(m)[1] \div n
        x_stride == Shape(m)[2] \div n
    IN  IF y_stride = 0 \/ x_stride = 0
        THEN [raised |-> TRUE, partitions |-> <<>>]
        ELSE [raised |-> FALSE,
              partitions |-> <<m>> \o Blocks(m, n, y_stride, x_stride,
                                             y_stride + 1, x_stride + 1)]

\* height / n and width / n are integer divisions; xrange with a zero step
\* raises ValueError
partition_matrix(m, n) ==
    LET y_stride == Shape(m)[1] \div n
        x_stride == Shape(m)[2] \div n
    IN  IF y_stride = 0 \/ x_stride = 0
        THEN [raised |-> TRUE, partitions |-> <<>>]
        ELSE [raised |-> FALSE,
              partitions |-> <<m>> \o Blocks(m, n, y_stride, x_stride,
                                             y_stride, x_stride)]

---------------------------------------------------------------------------
(* utils.clipping_percentage *)

\* numpy.sum(histogram[lo:hi]) for 0-based bounds
RECURSIVE SumSlice(_, _, _)
SumSlice(h, lo, hi) ==
    IF lo >= hi THEN 0 ELSE h[lo + 1] + SumSlice(h, lo + 1, hi)

\* the total below which the result is 0
MinTotal == Rat(5, 10000)

\* clipping_percentage with the bin at the threshold left out of the upper part
clipping_percentage_strict(h, t, overThreshold) ==
    LET total == SumSlice(h, 0, Len(h))
    IN  IF RLt(RInt(total), MinTotal) THEN RInt(0)
        ELSE IF overThreshold
             THEN RDiv(RInt(SumSlice(h, t + 1, Len(h))), RInt(total))
             ELSE RDiv(RInt(SumSlice(h, 0, t)), RInt(total))

clipping_percentage(h, t, overThreshold) ==
    LET total == SumSlice(h, 0, Len(h))
    IN  IF RLt(RInt(total), MinTotal) THEN RInt(0)
        ELSE IF overThreshold
             THEN RDiv(RInt(SumSlice(h, t, Len(h))), RInt(total))
             ELSE RDiv(RInt(SumSlice(h, 0, t)), RInt(total))

---------------------------------------------------------------------------
(* Specification of distances_from_center *)

NoMatrix == <<>>

IdleDist  == height = 0 /\ width = 0 /\ circle = NoMatrix
IdleScale == /\ prediction1 = NaN /\ prediction2 = NaN
             /\ score1 = NaN /\ score2 = NaN

IdlePattern ==
    /\ magnitude_spectrum = NoMatrix
    /\ mask = NoMatrix /\ donut = NoMatrix
    /\ all_distances = <<>> /\ max_distances = <<>>
    /\ max_distance_avg = Mean(<<>>)
    /\ intense_points = 0 /\ all_points = 0
    /\ prediction = NaN /\ score = NaN

IdleNorm == arr = NoArray /\ normalized = NoArray

IdlePart == matrix = NoMatrix /\ part_n = 0
            /\ partitions = [raised |-> FALSE, partitions |-> <<>>]
IdleClip == /\ histogram = <<>> /\ threshold = 0
            /\ clip_over = NaN /\ clip_under = NaN
IdleUtils == IdleNorm /\ IdlePart /\ IdleClip

InitDist ==
    /\ pc = "init"
    /\ height \in 1..MaxSide
    /\ width \in 1..MaxSide
    /\ circle = NoMatrix
    /\ IdleScale /\ IdlePattern /\ IdleUtils

DistancesFromCenter ==
    /\ pc = "init"
    /\ circle' = distances_from_center(height, width)
    /\ pc' = "done"
    /\ UNCHANGED <<height, width, scaleVars, patVars, normVars, partVars, clipVars>>

SpecDist == InitDist /\ [][DistancesFromCenter]_vars

---------------------------------------------------------------------------
(* Specification of scaled_prediction *)

Densities == {Rat(n, m) : n \in 0..MaxPoints, m \in 1..MaxPoints}

InitScale ==
    /\ pc = "init"
    /\ prediction1 \in {d \in Densities : RLe(d, RInt(1))}
    /\ prediction2 \in {d \in Densities : RLe(d, RInt(1))}
    /\ score1 = NaN
    /\ score2 = NaN
    /\ IdleDist /\ IdlePattern /\ IdleUtils

ScaledPrediction ==
    /\ pc = "init"
    /\ score1' = scaled_prediction(prediction1)
    /\ score2' = scaled_prediction(prediction2)
    /\ pc' = "done"
    /\ UNCHANGED <<prediction1, prediction2, distVars, patVars, normVars,
                   partVars, clipVars>>

SpecScale == InitScale /\ [][ScaledPrediction]_vars

---------------------------------------------------------------------------
(* Specification of PatternDetection.run *)

\* spectrum values drawn, in tenths: 0.0, 0.7 (not above the threshold), 1.0
SpectrumValues == {Rat(0, 10), Rat(7, 10), Rat(10, 10)}

Spectra ==
    UNION {IF h * w <= MaxCells
           THEN [0..(h - 1) -> [0..(w - 1) -> SpectrumValues]] ELSE {} :
               h \in 1..MaxDim, w \in 1..MaxDim}

InitPattern ==
    /\ pc = "init"
    /\ magnitude_spectrum \in Spectra
    /\ mask = NoMatrix /\ donut = NoMatrix
    /\ all_distances = <<>> /\ max_distances = <<>>
    /\ max_distance_avg = Mean(<<>>)
    /\ intense_points = 0 /\ all_points = 0
    /\ prediction = NaN /\ score = NaN
    /\ IdleDist /\ IdleScale /\ IdleUtils

\* PatternDetection.run from the magnitude spectrum on:
\* scaled_prediction(pattern_recognition(magnitude_spectrum))
PatternDetectionRun ==
    /\ pc = "init"
    /\ \E c \in {distances_from_center(Shape(magnitude_spectrum)[1],
                                        Shape(magnitude_spectrum)[2])} :
       \E msk \in {[y \in DOMAIN c |-> [x \in DOMAIN c[y] |->
                       RGt(magnitude_spectrum[y][x], Threshold)]]} :
       \E raw \in {MaskedDistances(c, msk)} :
       \E removed \in Removable(raw, Contamination), tie \in BOOLEAN :
       \E kept \in {remove_anomalies(raw, removed)} :
       \E tops \in {get_max_values(kept, MaxValuesCount)} :
       \E avg \in {Mean(tops)} :
       \E dn \in {Donut(c, avg, tie)} :
       \E ip \in {Cardinality({yx \in Cells(c) :
                      msk[yx[1]][yx[2]] /\ ~dn[yx[1]][yx[2]]})} :
       \E ap \in {Cardinality(Cells(c)) - CountTrue(dn)} :
       \E pr \in {RDiv(RInt(ip), RInt(ap))} :
          /\ circle' = c
          /\ mask' = msk
          /\ all_distances' = kept
          /\ max_distances' = tops
          /\ max_distance_avg' = avg
          /\ donut' = dn
          /\ intense_points' = ip
          /\ all_points' = ap
          /\ prediction' = pr
          /\ score' = scaled_prediction(pr)
    /\ pc' = "done"
    /\ UNCHANGED <<magnitude_spectrum, height, width, scaleVars, normVars,
                   partVars, clipVars>>

SpecPattern == InitPattern /\ [][PatternDetectionRun]_vars

---------------------------------------------------------------------------
(* Specification of utils.normalize *)

Shapes == {<<n>> : n \in 1..MaxLen} \cup {<<r, c>> : r \in 1..MaxRows, c \in 1..MaxRows}

Arrays ==
    UNION {[shape : {sh},
            data  : [1..Size(sh) -> {RInt(v) : v \in 0..MaxVal}],
            dtype : {"int", "float"}] : sh \in Shapes}

InitNorm ==
    /\ pc = "init"
    /\ arr \in Arrays
    /\ normalized = NoArray
    /\ IdleDist /\ IdleScale /\ IdlePattern /\ IdlePart /\ IdleClip

Normalize ==
    /\ pc = "init"
    /\ normalized' = normalize(arr)
    /\ pc' = "done"
    /\ UNCHANGED <<arr, distVars, scaleVars, patVars, partVars, clipVars>>

SpecNorm == InitNorm /\ [][Normalize]_vars

---------------------------------------------------------------------------
(* Specification of utils.partition_matrix *)

\* an h x w matrix whose element at (y, x) names that cell
CellMatrix(h, w) == [y \in 0..(h - 1) |-> [x \in 0..(w - 1) |-> <<y, x>>]]

InitPart ==
    /\ pc = "init"
    /\ matrix \in {CellMatrix(h, w) : h \in 1..MaxPartSide, w \in 1..MaxPartSide}
    /\ part_n \in 1..MaxN
    /\ partitions = [raised |-> FALSE, partitions |-> <<>>]
    /\ IdleDist /\ IdleScale /\ IdlePattern /\ IdleNorm /\ IdleClip

PartitionMatrix ==
    /\ pc = "init"
    /\ partitions' = partition_matrix(matrix, part_n)
    /\ pc' = "done"
    /\ UNCHANGED <<matrix, part_n, distVars, scaleVars, patVars, normVars, clipVars>>

SpecPart == InitPart /\ [][PartitionMatrix]_vars

---------------------------------------------------------------------------
(* Specification of utils.clipping_percentage *)

InitClip ==
    /\ pc = "init"
    /\ histogram \in [1..MaxBins -> 0..MaxCount]
    /\ threshold \in 0..(MaxBins - 1)
    /\ clip_over = NaN /\ clip_under = NaN
    /\ IdleDist /\ IdleScale /\ IdlePattern /\ IdleNorm /\ IdlePart

\* the function called with overThreshold True and with overThreshold False
ClippingPercentage ==
    /\ pc = "init"
    /\ clip_over' = clipping_percentage(histogram, threshold, TRUE)
    /\ clip_under' = clipping_percentage(histogram, threshold, FALSE)
    /\ pc' = "done"
    /\ UNCHANGED <<histogram, threshold, distVars, scaleVars, patVars, normVars,
                   partVars>>

SpecClip == InitClip /\ [][ClippingPercentage]_vars

---------------------------------------------------------------------------
(* Properties *)

\* C1: scaled_prediction returns exactly 1.0 for d < 0.05 and exactly 0.0
\* for d > 0.4; every other d, 0.05 and 0.4 included, takes the
\* interpolation branch, whose value is 1 - d / 0.4 (so 0.05 does not
\* give 1.0).
C1_StrictBoundariesInterpolation ==
    pc = "done" =>
        /\ RLt(prediction1, LowDensity) => score1 = RInt(1)
        /\ RGt(prediction1, HighDensity) => score1 = RInt(0)
        /\ (RGe(prediction1, LowDensity) /\ RLe(prediction1, HighDensity)) =>
              score1 = RSub(RInt(1), RDiv(prediction1, HighDensity))
        /\ prediction1 = LowDensity => score1 # RInt(1)

\* C2: the score of every magnitude spectrum is a number in [0, 1], never
\* NaN.
C2_ScoreInUnitInterval ==
    pc = "done" =>
        ~score.nan /\ RGe(score, RInt(0)) /\ RLe(score, RInt(1))

\* C3: the score does not increase with the raw density: d1 <= d2 implies
\* scaled_prediction(d1) >= scaled_prediction(d2).
C3_ScoreNonIncreasing ==
    (pc = "done" /\ RLe(prediction1, prediction2)) => RGe(score1, score2)

\* C4: when no cell is inner (AllPoints = 0) the raw density is a defined
\* number, not NaN, and so is the final score.
C4_EmptyInnerRegionDefined ==
    (pc = "done" /\ all_points = 0) => (~prediction.nan /\ ~score.nan)

NoIntenseCell ==
    \A yx \in Cells(magnitude_spectrum) :
        ~RGt(magnitude_spectrum[yx[1]][yx[2]], Threshold)

\* C5: a spectrum with no cell above 0.7 has an empty distance set, an
\* estimated radius that is a defined number and not NaN, and a
\* well-defined final score.
C5_EmptyDistanceSetDefined ==
    (pc = "done" /\ NoIntenseCell) =>
        /\ all_distances = <<>>
        /\ ~max_distance_avg.nan
        /\ ~score.nan

\* C6: distances_from_center(H, W) is an H x W array whose cell (y, x)
\* holds (x - W/2)^2 + (y - H/2)^2 for the unrounded center; every cell is
\* >= 0 and the minimum is attained exactly at the cells nearest the center
\* in both coordinates.
C6_DistanceField ==
    pc = "done" =>
        /\ DOMAIN circle = 0..(height - 1)
        /\ \A y \in 0..(height - 1) :
              /\ DOMAIN circle[y] = 0..(width - 1)
              /\ \A x \in 0..(width - 1) :
                    /\ circle[y][x]
                         = Rat((2 * x - width) * (2 * x - width)
                                 + (2 * y - height) * (2 * y - height), 4)
                    /\ RGe(circle[y][x], RInt(0))
                    /\ (\A y2 \in 0..(height - 1), x2 \in 0..(width - 1) :
                            RLe(circle[y][x], circle[y2][x2]))
                       <=> (/\ \A x2 \in 0..(width - 1) :
                                  Abs(2 * x - width) <= Abs(2 * x2 - width)
                            /\ \A y2 \in 0..(height - 1) :
                                  Abs(2 * y - height) <= Abs(2 * y2 - height))

\* a 3 x 5 field is computed: its minimum 1/2 lies at the two cells on
\* either side of the center column 2.5, in the middle row
C6_Witness ==
    /\ pc = "done" /\ height = 3 /\ width = 5
    /\ circle[1][2] = Rat(1, 2) /\ circle[1][3] = Rat(1, 2)
    /\ circle[0][0] = Rat(17, 2)

\* circle value r is strictly below max_distance_avg ** 2 (false when the
\* average is NaN); at a rounding tie the comparison made is the one the
\* donut records
StrictlyInside(r, avg, outer) ==
    /\ ~avg.nan
    /\ \/ CompareRadius(r, avg) = "no"
       \/ CompareRadius(r, avg) = "tie" /\ ~outer

\* C7: a cell is inner exactly when its circle value is strictly below the
\* squared estimated radius; IntensePoints counts the cells above 0.7 that
\* are inner, AllPoints the inner cells, the raw density is their quotient;
\* IntensePoints <= AllPoints, and the density is in [0, 1] when
\* AllPoints > 0.
C7_InnerPartitionAndDensity ==
    pc = "done" =>
        LET inner == {yx \in Cells(circle) :
                        StrictlyInside(circle[yx[1]][yx[2]], max_distance_avg,
                                       donut[yx[1]][yx[2]])}
        IN  /\ \A yx \in Cells(circle) : (yx \in inner) <=> ~donut[yx[1]][yx[2]]
            /\ intense_points =
                   Cardinality({yx \in inner : mask[yx[1]][yx[2]]})
            /\ all_points = Cardinality(inner)
            /\ prediction = RDiv(RInt(intense_points), RInt(all_points))
            /\ intense_points <= all_points
            /\ all_points > 0 =>
                   RGe(prediction, RInt(0)) /\ RLe(prediction, RInt(1))

\* C8: normalize of a non-empty array whose minimum equals its maximum is a
\* constant array of the input's shape, one entry per element; of any other
\* array it is an array of the input's shape with all values in [0, 1], the
\* minimum mapped to 0 and the maximum to 1.
C8_NormalizeShapeAndRange ==
    pc = "done" =>
        /\ normalized.shape = arr.shape
        /\ Len(normalized.data) = Len(arr.data)
        /\ IF ArrMin(arr.data) = ArrMax(arr.data)
           THEN \A i, j \in 1..Len(normalized.data) :
                    normalized.data[i] = normalized.data[j]
           ELSE \A i \in 1..Len(normalized.data) :
                    /\ RGe(normalized.data[i], RInt(0))
                    /\ RLe(normalized.data[i], RInt(1))
                    /\ arr.data[i] = ArrMin(arr.data) =>
                           normalized.data[i] = RInt(0)
                    /\ arr.data[i] = ArrMax(arr.data) =>
                           normalized.data[i] = RInt(1)

\* the cells a block of the result holds
BlockCells(b) == {b[y][x] : y \in DOMAIN b, x \in DOMAIN b[0]}

RECURSIVE BinsTotal(_, _)
BinsTotal(h, ix) ==
    IF ix = {} THEN 0
    ELSE LET i == CHOOSE k \in ix : TRUE
         IN  h[i + 1] + BinsTotal(h, ix \ {i})

\* C10: clipping_percentage is 0 for a histogram whose total is zero;
\* otherwise it is the share of the total at indices >= t (overThreshold
\* true) or < t (false), each in [0, 1], and the two sum to exactly 1.
C10_ClippingShares ==
    pc = "done" =>
        LET bins  == 0..(Len(histogram) - 1)
            total == BinsTotal(histogram, bins)
            upper == BinsTotal(histogram, {i \in bins : i >= threshold})
            lower == BinsTotal(histogram, {i \in bins : i < threshold})
        IN  IF total = 0
            THEN clip_over = RInt(0) /\ clip_under = RInt(0)
            ELSE /\ ~clip_over.nan /\ ~clip_under.nan
                 /\ clip_over.num * total = upper * clip_over.den
                 /\ clip_under.num * total = lower * clip_under.den
                 /\ RGe(clip_over, RInt(0)) /\ RLe(clip_over, RInt(1))
                 /\ RGe(clip_under, RInt(0)) /\ RLe(clip_under, RInt(1))
                 /\ RAdd(clip_over, clip_under) = RInt(1)

\* a histogram with counts on both sides of the threshold has been scored
C10_Witness ==
    /\ pc = "done" /\ threshold > 0
    /\ RGt(clip_over, RInt(0)) /\ RGt(clip_under, RInt(0))
    /\ histogram[threshold + 1] > 0

===========================================================================
